---- MODULE Spec2Model ----
(***************************************************************************)
(* Model of the faculty client library: the run-query filter/sort model    *)
(* of faculty/clients/experiment.py (construction, wire encoding and       *)
(* decoding, query_runs), the base client's status handling and body       *)
(* decoding, the public operations of ExperimentClient and AccountClient,  *)
(* and the fetch-all loop over the pages of list_runs and query_runs.      *)
(*                                                                         *)
(* Python values are tagged records: every value has a "type" field, so    *)
(* that a namedtuple, a dict and None are distinct and comparable.         *)
(***************************************************************************)
EXTENDS Integers, Sequences, FiniteSets, TLC

VARIABLES pc, filter, sort, call, raised, result, wire, http

vars == <<pc, filter, sort, call, raised, result, wire, http>>

(***************************************************************************)
(* Bounds of the model.                                                    *)
(***************************************************************************)
\* filter nodes plus sort entries a caller builds for one query
MaxQuerySize == 3
\* length of the sort list of one query
MaxSort == 2
\* pages the server holds for one listing
MaxPages == 3
\* run ids a caller lists for delete_runs or restore_runs
MaxRunIds == 2

(***************************************************************************)
(* Python values.                                                          *)
(***************************************************************************)
None == [type |-> "NoneType"]

Str(s) == [type |-> "str", s |-> s]

PyInt(n) == [type |-> "int", n |-> n]

Uuid(n) == [type |-> "UUID", int |-> n]

Datetime(t) == [type |-> "datetime", t |-> t]

List(elems) == [type |-> "list", elems |-> elems]

Dict(items) == [type |-> "dict", items |-> items]

Enum(cls, name) == [type |-> cls, name |-> name]

\* a raised exception: its class and the value it carries
Error(cls, value) == [type |-> "Error", cls |-> cls, value |-> value]

IsError(x) == x.type = "Error"

\* isinstance(value, uuid.UUID)
IsUuid(value) == value.type = "UUID"

\* isinstance(value, int)
IsInt(value) == value.type = "int"

\* datetime.isoformat(): date and time joined by "T"
IsoFormat(dt) == Str("2018-03-10T11:39:1" \o ToString(dt.t) \o "+00:00")

\* str(value) of the Python built-in types
PyStr(value) ==
  CASE value.type = "str" -> value
    [] value.type = "int" -> Str(ToString(value.n))
    [] value.type = "UUID" ->
         Str("00000000-0000-0000-0000-00000000000" \o ToString(value.int))
    [] value.type = "datetime" ->
         Str("2018-03-10 11:39:1" \o ToString(value.t) \o "+00:00")
    [] value.type = "NoneType" -> Str("None")

\* the date-times of the model
Datetimes == {Datetime(2), Datetime(7)}

\* marshmallow.utils.from_iso_datetime: parses "date[T ]time" strings,
\* raises ValueError for any other string
FromIsoDatetime(string) ==
  IF \E dt \in Datetimes : string \in {IsoFormat(dt), PyStr(dt)}
  THEN CHOOSE dt \in Datetimes : string \in {IsoFormat(dt), PyStr(dt)}
  ELSE Error("ValueError", string)

(***************************************************************************)
(* Enumerations of experiment.py, with their wire literals.                *)
(***************************************************************************)
SingleFilterOperator ==
  {"DEFINED", "EQUAL_TO", "NOT_EQUAL_TO", "LESS_THAN",
   "LESS_THAN_OR_EQUAL_TO", "GREATER_THAN", "GREATER_THAN_OR_EQUAL_TO"}

SingleFilterBy ==
  {"PROJECT_ID", "EXPERIMENT_ID", "RUN_ID", "DELETED_AT",
   "TAG", "PARAM", "METRIC"}

CompoundFilterOperator == {"AND", "OR"}

SortBy == {"STARTED_AT", "RUN_NUMBER", "DURATION", "TAG", "PARAM", "METRIC"}

SortOrder == {"ASC", "DESC"}

ExperimentRunStatus == {"RUNNING", "FINISHED", "FAILED", "SCHEDULED"}

LifecycleStage == {"ACTIVE", "DELETED"}

\* Enum member -> its value (the wire literal)
EnumValue(member) ==
  CASE member.type = "SingleFilterOperator" ->
         [DEFINED |-> "defined", EQUAL_TO |-> "eq", NOT_EQUAL_TO |-> "ne",
          LESS_THAN |-> "lt", LESS_THAN_OR_EQUAL_TO |-> "le",
          GREATER_THAN |-> "gt",
          GREATER_THAN_OR_EQUAL_TO |-> "ge"][member.name]
    [] member.type = "SingleFilterBy" ->
         [PROJECT_ID |-> "projectId", EXPERIMENT_ID |-> "experimentId",
          RUN_ID |-> "runId", DELETED_AT |-> "deletedAt", TAG |-> "tag",
          PARAM |-> "param", METRIC |-> "metric"][member.name]
    [] member.type = "CompoundFilterOperator" ->
         [AND |-> "and", OR |-> "or"][member.name]
    [] member.type = "SortBy" ->
         [STARTED_AT |-> "startedAt", RUN_NUMBER |-> "runNumber",
          DURATION |-> "duration", TAG |-> "tag", PARAM |-> "param",
          METRIC |-> "metric"][member.name]
    [] member.type = "SortOrder" ->
         [ASC |-> "asc", DESC |-> "desc"][member.name]
    [] member.type = "ExperimentRunStatus" ->
         [RUNNING |-> "running", FINISHED |-> "finished",
          FAILED |-> "failed", SCHEDULED |-> "scheduled"][member.name]
    [] member.type = "LifecycleStage" ->
         [ACTIVE |-> "active", DELETED |-> "deleted"][member.name]

\* the members of an Enum class
EnumMembers(cls) ==
  CASE cls = "SingleFilterOperator" ->
         {Enum(cls, n) : n \in SingleFilterOperator}
    [] cls = "SingleFilterBy" -> {Enum(cls, n) : n \in SingleFilterBy}
    [] cls = "CompoundFilterOperator" ->
         {Enum(cls, n) : n \in CompoundFilterOperator}
    [] cls = "SortBy" -> {Enum(cls, n) : n \in SortBy}
    [] cls = "SortOrder" -> {Enum(cls, n) : n \in SortOrder}
    [] cls = "ExperimentRunStatus" ->
         {Enum(cls, n) : n \in ExperimentRunStatus}
    [] cls = "LifecycleStage" -> {Enum(cls, n) : n \in LifecycleStage}

(***************************************************************************)
(* Construction of filters and sorts.                                      *)
(***************************************************************************)
SingleFilterByNeedsKeyNoMetric(by) == by.name \in {"TAG", "PARAM"}

\* SingleFilterBy.needs_key
SingleFilterByNeedsKey(by) == by.name \in {"TAG", "PARAM", "METRIC"}

\* SingleFilter.__new__: the namedtuple, or the ValueError it raises
SingleFilterNew(by, key, operator, value) ==
  IF SingleFilterByNeedsKey(by) /\ key = None
  THEN Error("ValueError", by)
  ELSE IF ~SingleFilterByNeedsKey(by) /\ key # None
  THEN Error("ValueError", by)
  ELSE [type |-> "SingleFilter", by |-> by, key |-> key,
        operator |-> operator, value |-> value]

\* CompoundFilter: a plain namedtuple, no validation
CompoundFilterNew(operator, conditions) ==
  [type |-> "CompoundFilter", operator |-> operator,
   conditions |-> conditions]

SortByNeedsKeyNoMetric(by) == by.name \in {"TAG", "PARAM"}

\* SortBy.needs_key
SortByNeedsKey(by) == by.name \in {"TAG", "PARAM", "METRIC"}

\* Sort.__new__: the namedtuple, or the ValueError it raises
SortNew(by, key, order) ==
  IF SortByNeedsKey(by) /\ key = None
  THEN Error("ValueError", by)
  ELSE IF ~SortByNeedsKey(by) /\ key # None
  THEN Error("ValueError", by)
  ELSE [type |-> "Sort", by |-> by, key |-> key, order |-> order]

\* Page namedtuple
PageNew(start, limit) == [type |-> "Page", start |-> start, limit |-> limit]

\* QueryRuns namedtuple
QueryRunsNew(f, s, page) ==
  [type |-> "QueryRuns", filter |-> f, sort |-> s, page |-> page]

(***************************************************************************)
(* Wire encoding (marshmallow dump) of filters, sorts and queries.         *)
(***************************************************************************)
\* SingleFilterValueField._is_valid_uuid
IsValidUuid(value, obj) ==
  IsUuid(value) /\ obj.by.name \in {"PROJECT_ID", "RUN_ID"}

\* SingleFilterValueField._is_valid_experiment_id
IsValidExperimentId(value, obj) ==
  IsInt(value) /\ obj.by.name = "EXPERIMENT_ID"

\* SingleFilterValueField._is_directly_stringifiable
IsDirectlyStringifiable(value, obj) ==
  \/ IsValidUuid(value, obj)
  \/ IsValidExperimentId(value, obj)
  \/ obj.by.name \in {"TAG", "PARAM", "METRIC"}

SingleFilterValueFieldSerializeNoRaise(value, obj) ==
  IF IsDirectlyStringifiable(value, obj)
  THEN PyStr(value)
  ELSE IF obj.by.name = "DELETED_AT"
  THEN LET dt == FromIsoDatetime(PyStr(value))
       IN  IF IsError(dt) THEN dt ELSE IsoFormat(dt)
  ELSE PyStr(value)

SingleFilterValueFieldSerializeNoIsoFormat(value, obj) ==
  IF IsDirectlyStringifiable(value, obj) \/ obj.by.name = "DELETED_AT"
  THEN PyStr(value)
  ELSE Error("RunQueryFilterValidation", value)

\* SingleFilterValueField._serialize
SingleFilterValueFieldSerialize(value, obj) ==
  IF IsDirectlyStringifiable(value, obj)
  THEN PyStr(value)
  ELSE IF obj.by.name = "DELETED_AT"
  THEN LET dt == FromIsoDatetime(PyStr(value))
       IN  IF IsError(dt) THEN dt ELSE IsoFormat(dt)
  ELSE Error("RunQueryFilterValidation", value)

\* EnumField(by_value=True)._serialize
EnumFieldSerialize(value) ==
  IF value = None THEN None ELSE Str(EnumValue(value))

\* fields.String._serialize
StringFieldSerialize(value) ==
  IF value = None THEN None ELSE PyStr(value)

\* SingleFilterSchema().dump
SingleFilterSchemaDump(obj) ==
  LET value == SingleFilterValueFieldSerialize(obj.value, obj)
  IN  IF IsError(value)
      THEN value
      ELSE Dict([by |-> EnumFieldSerialize(obj.by),
                 key |-> StringFieldSerialize(obj.key),
                 operator |-> EnumFieldSerialize(obj.operator),
                 value |-> value])

\* the first exception raised while mapping over a list, if any
FirstError(seq) ==
  LET errs == {i \in 1..Len(seq) : IsError(seq[i])}
  IN  IF errs = {}
      THEN None
      ELSE seq[CHOOSE i \in errs : \A j \in errs : i <= j]

RECURSIVE FilterFieldSerialize(_, _)

\* CompoundFilterSchema().dump; fields.List passes the enclosing object on
\* to FilterField._serialize for every element, in order
CompoundFilterSchemaDump(obj) ==
  IF obj.conditions = None
  THEN Dict([operator |-> EnumFieldSerialize(obj.operator),
             conditions |-> None])
  ELSE
    LET elems == obj.conditions.elems
        conds == [i \in 1..Len(elems) |-> FilterFieldSerialize(elems[i], obj)]
    IN  IF FirstError(conds) # None
        THEN FirstError(conds)
        ELSE Dict([operator |-> EnumFieldSerialize(obj.operator),
                   conditions |-> List(conds)])

\* FilterField._serialize
FilterFieldSerialize(value, obj) ==
  IF value = None /\ obj.type = "QueryRuns"
  THEN None
  ELSE IF value = None
  THEN Error("RunQueryFilterValidation", value)
  ELSE IF value.type = "SingleFilter"
  THEN SingleFilterSchemaDump(value)
  ELSE CompoundFilterSchemaDump(value)

\* SortSchema().dump
SortSchemaDump(obj) ==
  Dict([by |-> EnumFieldSerialize(obj.by),
        key |-> StringFieldSerialize(obj.key),
        order |-> EnumFieldSerialize(obj.order)])

SortListSerializeReversed(value) ==
  IF value = None
  THEN None
  ELSE List([i \in 1..Len(value.elems) |->
               SortSchemaDump(value.elems[Len(value.elems) + 1 - i])])

\* fields.List(fields.Nested(SortSchema))._serialize
SortListSerialize(value) ==
  IF value = None
  THEN None
  ELSE List([i \in 1..Len(value.elems) |-> SortSchemaDump(value.elems[i])])

\* PageSchema().dump
PageSchemaDump(obj) == Dict([start |-> obj.start, limit |-> obj.limit])

\* fields.Nested(PageSchema)._serialize
PageNestedSerialize(value) ==
  IF value = None THEN None ELSE PageSchemaDump(value)

\* QueryRunsSchema().dump
QueryRunsSchemaDump(obj) ==
  LET f == FilterFieldSerialize(obj.filter, obj)
  IN  IF IsError(f)
      THEN f
      ELSE Dict([filter |-> f,
                 sort |-> SortListSerialize(obj.sort),
                 page |-> PageNestedSerialize(obj.page)])

(***************************************************************************)
(* Wire decoding (marshmallow load) of filters.                            *)
(***************************************************************************)
\* EnumField(by_value=True)._deserialize: the member with that value, or
\* a validation error
EnumFieldDeserialize(cls, value) ==
  IF value.type = "str" /\ \E m \in EnumMembers(cls) : EnumValue(m) = value.s
  THEN CHOOSE m \in EnumMembers(cls) : EnumValue(m) = value.s
  ELSE Error("ValidationError", value)

\* SingleFilterValueField._deserialize
SingleFilterValueFieldDeserialize(value) == value

\* fields.String deserialization: null and non-strings are rejected
StringFieldDeserialize(value) ==
  IF value.type = "str" THEN value ELSE Error("ValidationError", value)

\* SingleFilterSchema().load: a dict of the loaded fields (the schema has no
\* post_load), or a validation error; input that is not a mapping is invalid
SingleFilterSchemaLoad(data) ==
  IF data.type # "dict"
  THEN Error("ValidationError", data)
  ELSE
    LET items == data.items
        keys == DOMAIN items \cap {"by", "key", "operator", "value"}
        loaded == [k \in keys |->
                     CASE k = "by" ->
                            EnumFieldDeserialize("SingleFilterBy", items[k])
                       [] k = "key" -> StringFieldDeserialize(items[k])
                       [] k = "operator" ->
                            EnumFieldDeserialize("SingleFilterOperator",
                                                 items[k])
                       [] k = "value" ->
                            IF items[k] = None
                            THEN Error("ValidationError", None)
                            ELSE SingleFilterValueFieldDeserialize(items[k])]
    IN  IF {"by", "operator", "value"} \subseteq keys
           /\ \A k \in keys : ~IsError(loaded[k])
        THEN Dict(loaded)
        ELSE Error("ValidationError", data)

RECURSIVE FilterFieldDeserialize(_)

\* CompoundFilterSchema().load: a dict of the loaded fields (the schema has
\* no post_load), or a validation error; keys the schema does not declare
\* are ignored
CompoundFilterSchemaLoad(data) ==
  IF data.type # "dict"
  THEN Error("ValidationError", data)
  ELSE
    LET items == data.items
        keys == DOMAIN items \cap {"operator", "conditions"}
        Conditions(value) ==
          IF value.type # "list"
          THEN Error("ValidationError", value)
          ELSE LET each == [i \in 1..Len(value.elems) |->
                              IF value.elems[i] = None
                              THEN Error("ValidationError", None)
                              ELSE FilterFieldDeserialize(value.elems[i])]
               IN  IF FirstError(each) # None
                   THEN Error("ValidationError", value)
                   ELSE List(each)
        loaded == [k \in keys |->
                     CASE k = "operator" ->
                            EnumFieldDeserialize("CompoundFilterOperator",
                                                 items[k])
                       [] k = "conditions" -> Conditions(items[k])]
    IN  IF "operator" \in keys /\ \A k \in keys : ~IsError(loaded[k])
        THEN Dict(loaded)
        ELSE Error("ValidationError", data)

\* FilterField._deserialize
FilterFieldDeserialize(value) ==
  IF value = None
  THEN None
  ELSE IF value.type = "SingleFilter"
  THEN SingleFilterSchemaLoad(value)
  ELSE CompoundFilterSchemaLoad(value)


(***************************************************************************)
(* Base client: one HTTP exchange, status check and body decoding.         *)
(***************************************************************************)
\* a transport response
Response(status_code, body) ==
  [type |-> "Response", status_code |-> status_code, body |-> body]

\* a response body that is not JSON
Text(s) == [type |-> "text", s |-> s]

\* the error class of a status code
HttpErrorClass(status_code) ==
  CASE status_code = 400 -> "BadRequest"
    [] status_code = 401 -> "Unauthorized"
    [] status_code = 403 -> "Forbidden"
    [] status_code = 404 -> "NotFound"
    [] status_code = 405 -> "MethodNotAllowed"
    [] status_code = 409 -> "Conflict"
    [] status_code = 500 -> "InternalServerError"
    [] status_code = 502 -> "BadGateway"
    [] status_code = 503 -> "ServiceUnavailable"
    [] status_code = 504 -> "GatewayTimeout"
    [] OTHER -> "HttpError"

IsSuccessBelow400(status_code) == status_code < 400

\* whether a status code is a success (2xx)
IsSuccess(status_code) == status_code \in 200..299

\* the status check: the error raised for a non-2xx response, else None
CheckStatus(response) ==
  IF IsSuccess(response.status_code)
  THEN None
  ELSE Error(HttpErrorClass(response.status_code), response)

\* response.json(): the parsed body, or the parser's ValueError
ResponseJson(response) ==
  IF response.body.type = "text"
  THEN Error("ValueError", response.body)
  ELSE response.body

\* PageSchema().load with its post_load
PageSchemaLoad(data) ==
  IF /\ data.type = "dict"
     /\ {"start", "limit"} \subseteq DOMAIN data.items
     /\ data.items.start.type = "int"
     /\ data.items.limit.type = "int"
  THEN PageNew(data.items.start, data.items.limit)
  ELSE Error("ValidationError", data)

\* fields.Nested(PageSchema, missing=None) of PaginationSchema
PageNestedLoad(items, key) ==
  IF key \notin DOMAIN items
  THEN None
  ELSE IF items[key] = None
  THEN None
  ELSE PageSchemaLoad(items[key])

\* PaginationSchema().load with its post_load
PaginationSchemaLoad(data) ==
  IF /\ data.type = "dict"
     /\ {"start", "size"} \subseteq DOMAIN data.items
     /\ data.items.start.type = "int"
     /\ data.items.size.type = "int"
     /\ ~IsError(PageNestedLoad(data.items, "previous"))
     /\ ~IsError(PageNestedLoad(data.items, "next"))
  THEN [type |-> "Pagination", start |-> data.items.start,
        size |-> data.items.size,
        previous |-> PageNestedLoad(data.items, "previous"),
        next |-> PageNestedLoad(data.items, "next")]
  ELSE Error("ValidationError", data)

\* ListExperimentRunsResponseSchema().load with its post_load; the model's
\* responses carry no runs
ListExperimentRunsResponseSchemaLoad(data) ==
  IF /\ data.type = "dict"
     /\ {"pagination", "runs"} \subseteq DOMAIN data.items
     /\ data.items.runs = List(<<>>)
     /\ ~IsError(PaginationSchemaLoad(data.items.pagination))
  THEN [type |-> "ListExperimentRunsResponse", runs |-> List(<<>>),
        pagination |-> PaginationSchemaLoad(data.items.pagination)]
  ELSE Error("ValidationError", data)

\* a base schema that rejects the keys it does not declare
BaseSchemaRaise(data, declared) ==
  IF DOMAIN data.items \subseteq declared
  THEN data
  ELSE Error("ValidationError", data)

\* BaseSchema's handling of the keys a schema does not declare: they are
\* dropped from the object before its fields are loaded
BaseSchemaExclude(data, declared) ==
  Dict([k \in DOMAIN data.items \cap declared |-> data.items[k]])

\* the keys a schema of the base client's tests declares
DeclaredFields(schema) ==
  CASE schema = "DummySchema" -> {"foo"}
    [] schema = "BaseSchema" -> {}

\* BaseSchema().load: a schema without fields
BaseSchemaLoad(data) ==
  IF data.type = "dict"
  THEN BaseSchemaExclude(data, DeclaredFields("BaseSchema"))
  ELSE Error("ValidationError", data)

\* DummySchema().load of the base client's tests: a required string "foo"
DummySchemaLoad(data) ==
  IF data.type # "dict"
  THEN Error("ValidationError", data)
  ELSE LET known == BaseSchemaExclude(data, DeclaredFields("DummySchema"))
       IN  IF IsError(known)
           THEN known
           ELSE IF /\ "foo" \in DOMAIN known.items
                   /\ known.items.foo.type = "str"
           THEN [type |-> "DummyObject", foo |-> known.items.foo]
           ELSE Error("ValidationError", data)

\* the UUIDs of the model
Uuids == {Uuid(1), Uuid(2)}

\* fields.UUID._deserialize
UuidFieldDeserialize(value) ==
  IF \E u \in Uuids : PyStr(u) = value
  THEN CHOOSE u \in Uuids : PyStr(u) = value
  ELSE Error("ValidationError", value)

\* fields.List(fields.UUID())._deserialize
UuidListDeserialize(value) ==
  IF value.type # "list"
  THEN Error("ValidationError", value)
  ELSE LET ids == [i \in 1..Len(value.elems) |->
                     UuidFieldDeserialize(value.elems[i])]
       IN  IF \E i \in 1..Len(ids) : IsError(ids[i])
           THEN Error("ValidationError", value)
           ELSE List(ids)

\* the response schemas whose objects keep their fields as the wire
\* carries them: the keys they require, the keys that may be missing, and
\* the namedtuple of their post_load
ObjectSchemas ==
  [ExperimentSchema |->
     [required |-> {"experimentId", "name", "description",
                    "artifactLocation", "createdAt", "lastUpdatedAt"},
      optional |-> {"deletedAt"},
      object |-> "Experiment"],
   ExperimentRunSchema |->
     [required |-> {"runId", "runNumber", "experimentId", "name",
                    "artifactLocation", "status", "startedAt", "tags",
                    "params", "metrics"},
      optional |-> {"parentRunId", "endedAt", "deletedAt"},
      object |-> "ExperimentRun"]]

\* ExperimentSchema().load and ExperimentRunSchema().load with their
\* post_load
ObjectSchemaLoad(schema, data) ==
  IF /\ data.type = "dict"
     /\ ObjectSchemas[schema].required \subseteq DOMAIN data.items
  THEN [type |-> ObjectSchemas[schema].object,
        fields |-> BaseSchemaExclude(data,
                     ObjectSchemas[schema].required
                       \cup ObjectSchemas[schema].optional)]
  ELSE Error("ValidationError", data)

\* ExperimentSchema(many=True).load
ExperimentSchemaManyLoad(data) ==
  IF data.type # "list"
  THEN Error("ValidationError", data)
  ELSE LET loaded == [i \in 1..Len(data.elems) |->
                        ObjectSchemaLoad("ExperimentSchema", data.elems[i])]
       IN  IF \E i \in 1..Len(loaded) : IsError(loaded[i])
           THEN Error("ValidationError", data)
           ELSE List(loaded)

\* MetricHistorySchema().load with its post_load, which extracts the
\* history; the model's histories are empty
MetricHistorySchemaLoad(data) ==
  IF /\ data.type = "dict"
     /\ "history" \in DOMAIN data.items
     /\ data.items.history = List(<<>>)
  THEN data.items.history
  ELSE Error("ValidationError", data)

\* DeleteExperimentRunsResponseSchema().load with its post_load
DeleteExperimentRunsResponseSchemaLoad(data) ==
  IF /\ data.type = "dict"
     /\ {"deletedRunIds", "conflictedRunIds"} \subseteq DOMAIN data.items
     /\ ~IsError(UuidListDeserialize(data.items.deletedRunIds))
     /\ ~IsError(UuidListDeserialize(data.items.conflictedRunIds))
  THEN [type |-> "DeleteExperimentRunsResponse",
        deleted_run_ids |-> UuidListDeserialize(data.items.deletedRunIds),
        conflicted_run_ids |->
          UuidListDeserialize(data.items.conflictedRunIds)]
  ELSE Error("ValidationError", data)

\* RestoreExperimentRunsResponseSchema().load with its post_load
RestoreExperimentRunsResponseSchemaLoad(data) ==
  IF /\ data.type = "dict"
     /\ {"restoredRunIds", "conflictedRunIds"} \subseteq DOMAIN data.items
     /\ ~IsError(UuidListDeserialize(data.items.restoredRunIds))
     /\ ~IsError(UuidListDeserialize(data.items.conflictedRunIds))
  THEN [type |-> "RestoreExperimentRunsResponse",
        restored_run_ids |-> UuidListDeserialize(data.items.restoredRunIds),
        conflicted_run_ids |->
          UuidListDeserialize(data.items.conflictedRunIds)]
  ELSE Error("ValidationError", data)

\* _AccountSchema().load with its post_load
AccountSchemaLoad(data) ==
  IF /\ data.type = "dict"
     /\ {"userId", "username"} \subseteq DOMAIN data.items
     /\ ~IsError(UuidFieldDeserialize(data.items.userId))
     /\ data.items.username.type = "str"
  THEN [type |-> "Account",
        user_id |-> UuidFieldDeserialize(data.items.userId),
        username |-> data.items.username]
  ELSE Error("ValidationError", data)

\* _AuthenticationResponseSchema().load with its post_load
AuthenticationResponseSchemaLoad(data) ==
  IF /\ data.type = "dict"
     /\ "account" \in DOMAIN data.items
     /\ ~IsError(AccountSchemaLoad(data.items.account))
  THEN [type |-> "_AuthenticationResponse",
        account |-> AccountSchemaLoad(data.items.account)]
  ELSE Error("ValidationError", data)

\* schema.load for the schemas of the model
SchemaLoad(schema, data) ==
  CASE schema = "DummySchema" -> DummySchemaLoad(data)
    [] schema = "BaseSchema" -> BaseSchemaLoad(data)
    [] schema = "ListExperimentRunsResponseSchema" ->
         ListExperimentRunsResponseSchemaLoad(data)
    [] schema \in DOMAIN ObjectSchemas -> ObjectSchemaLoad(schema, data)
    [] schema = "ExperimentSchema(many=True)" ->
         ExperimentSchemaManyLoad(data)
    [] schema = "MetricHistorySchema" -> MetricHistorySchemaLoad(data)
    [] schema = "DeleteExperimentRunsResponseSchema" ->
         DeleteExperimentRunsResponseSchemaLoad(data)
    [] schema = "RestoreExperimentRunsResponseSchema" ->
         RestoreExperimentRunsResponseSchemaLoad(data)
    [] schema = "_AuthenticationResponseSchema" ->
         AuthenticationResponseSchemaLoad(data)

\* a raw variant that checks the status whatever check_status is
RequestRawAlwaysChecks(response, check_status) ==
  IF CheckStatus(response) # None
  THEN CheckStatus(response)
  ELSE response

\* the raw variant of a verb (_get_raw, _post_raw, ...): the response, or
\* the status error
RequestRaw(response, check_status) ==
  IF check_status /\ CheckStatus(response) # None
  THEN CheckStatus(response)
  ELSE response

\* a typed variant that validates against the schema before it looks at
\* the outcome of the JSON parser
RequestTypedSchemaFirst(response, schema, check_status) ==
  LET raw == RequestRaw(response, check_status)
      json == ResponseJson(response)
      data == SchemaLoad(schema, json)
  IN  IF IsError(raw)
      THEN raw
      ELSE IF IsError(data)
      THEN Error("InvalidResponse", Str("does not match expected format"))
      ELSE IF IsError(json)
      THEN Error("InvalidResponse", Str("not valid JSON"))
      ELSE data

\* the typed variant of a verb (_get, _post, ...): the decoded body, or the
\* status error, or InvalidResponse
RequestTyped(response, schema, check_status) ==
  LET raw == RequestRaw(response, check_status)
      json == ResponseJson(response)
      data == SchemaLoad(schema, json)
  IN  IF IsError(raw)
      THEN raw
      ELSE IF IsError(json)
      THEN Error("InvalidResponse", Str("not valid JSON"))
      ELSE IF IsError(data)
      THEN Error("InvalidResponse", Str("does not match expected format"))
      ELSE data

\* an HTTP request as the transport sees it
HttpRequest(method, endpoint, json) ==
  [type |-> "Request", method |-> method, endpoint |-> endpoint,
   json |-> json]

\* a GET request with query parameters as the transport sees it
HttpGetRequest(endpoint, params) ==
  [type |-> "Request", method |-> "GET", endpoint |-> endpoint,
   params |-> params]

\* err.error_code of an HTTP-status error: the errorCode of the response
\* body when present
ErrorCode(err) ==
  LET body == err.value.body
  IN  IF body.type = "dict" /\ "errorCode" \in DOMAIN body.items
      THEN body.items.errorCode
      ELSE None

\* err.error of an HTTP-status error: the error message of the response
\* body when present
ErrorMessage(err) ==
  LET body == err.value.body
  IN  IF body.type = "dict" /\ "error" \in DOMAIN body.items
      THEN body.items.error
      ELSE None

(***************************************************************************)
(* The experiment client: exceptions, payloads and the reinterpretation    *)
(* of Conflict.                                                            *)
(***************************************************************************)
\* an exception whose message does not mention the name
ExperimentNameConflictNoName(name) ==
  Error("ExperimentNameConflict",
        Str("An experiment with that name already exists in that project"))

\* ExperimentNameConflict(name): the message embeds the name
ExperimentNameConflictNew(name) ==
  Error("ExperimentNameConflict",
        Str("An experiment with name '" \o PyStr(name).s
              \o "' already exists in that project"))

\* an exception that forgets the conflicting parameters
ParamConflictNewEmpty(message, conflicting_params) ==
  Error("ParamConflict",
        [type |-> "args", message |-> message,
         conflicting_params |-> List(<<>>)])

\* ParamConflict(message, conflicting_params)
ParamConflictNew(message, conflicting_params) ==
  Error("ParamConflict",
        [type |-> "args", message |-> message,
         conflicting_params |-> IF conflicting_params = None
                                THEN List(<<>>)
                                ELSE conflicting_params])

\* ExperimentDeleted(message, experiment_id)
ExperimentDeletedNew(message, experiment_id) ==
  Error("ExperimentDeleted",
        [type |-> "args", message |-> message,
         experiment_id |-> experiment_id])

\* a handler that turns every Conflict into ExperimentNameConflict
NameConflictHandlerAnyCode(outcome, name) ==
  IF IsError(outcome) /\ outcome.cls = "Conflict"
  THEN ExperimentNameConflictNew(name)
  ELSE outcome

\* the except clause of create and update
NameConflictHandler(outcome, name) ==
  IF IsError(outcome) /\ outcome.cls = "Conflict"
  THEN IF ErrorCode(outcome) = Str("experiment_name_conflict")
       THEN ExperimentNameConflictNew(name)
       ELSE outcome
  ELSE outcome

\* dict[key] of a parsed response body
BodyGetItem(response, key) ==
  LET json == ResponseJson(response)
  IN  IF IsError(json)
      THEN json
      ELSE IF json.type = "dict" /\ key \in DOMAIN json.items
      THEN json.items[key]
      ELSE Error("KeyError", Str(key))

\* the except clause of create_run
ExperimentDeletedHandler(outcome) ==
  IF IsError(outcome) /\ outcome.cls = "Conflict"
  THEN IF ErrorCode(outcome) = Str("experiment_deleted")
       THEN LET id == BodyGetItem(outcome.value, "experimentId")
            IN  IF IsError(id)
                THEN id
                ELSE ExperimentDeletedNew(ErrorMessage(outcome), id)
       ELSE outcome
  ELSE outcome

\* the except clause of log_run_data
ParamConflictHandler(outcome) ==
  IF IsError(outcome) /\ outcome.cls = "Conflict"
  THEN IF ErrorCode(outcome) = Str("conflicting_params")
       THEN LET keys == BodyGetItem(outcome.value, "parameterKeys")
            IN  IF IsError(keys)
                THEN keys
                ELSE ParamConflictNew(ErrorMessage(outcome), keys)
       ELSE outcome
  ELSE outcome

\* fields.UUID._serialize
UuidFieldSerialize(value) ==
  IF value = None THEN None ELSE PyStr(value)

\* fields.DateTime._serialize
DateTimeFieldSerialize(value) ==
  IF value = None THEN None ELSE IsoFormat(value)

\* CreateRunSchema().dump; the model's tag lists are empty
CreateRunSchemaDump(obj) ==
  Dict([name |-> StringFieldSerialize(obj.name),
        parentRunId |-> UuidFieldSerialize(obj.parent_run_id),
        startedAt |-> DateTimeFieldSerialize(obj.started_at),
        artifactLocation |-> StringFieldSerialize(obj.artifact_location),
        tags |-> obj.tags])

\* ExperimentRunDataSchema().dump; the model's lists are None or empty
ExperimentRunDataSchemaDump(obj) ==
  Dict([metrics |-> obj.metrics, params |-> obj.params,
        tags |-> obj.tags])

\* ExperimentRunInfoSchema().dump
ExperimentRunInfoSchemaDump(obj) ==
  Dict([status |-> EnumFieldSerialize(obj.status),
        endedAt |-> DateTimeFieldSerialize(obj.ended_at)])

\* a filter that lists the run ids last to first
RunIdsFilterReversed(run_ids) ==
  Dict([operator |-> Str("or"),
        conditions |->
          List([i \in 1..Len(run_ids.elems) |->
                  Dict([by |-> Str("runId"), operator |-> Str("eq"),
                        value |->
                          PyStr(run_ids.elems[Len(run_ids.elems) + 1 - i])])
               ])])

\* the run ids as conditions joined by "or"
RunIdsFilter(run_ids) ==
  Dict([operator |-> Str("or"),
        conditions |->
          List([i \in 1..Len(run_ids.elems) |->
                  Dict([by |-> Str("runId"), operator |-> Str("eq"),
                        value |-> PyStr(run_ids.elems[i])])])])

\* a method that sends a request for the empty list too
RunsShortCircuitNever(run_ids) == FALSE

\* delete_runs and restore_runs return without a request for an explicit
\* empty list
RunsShortCircuit(run_ids) ==
  run_ids # None /\ Len(run_ids.elems) = 0

\* a payload that encodes None as a filter without conditions
RunsPayloadFilterForNone(run_ids) ==
  Dict([filter |-> RunIdsFilter(IF run_ids = None
                                THEN List(<<>>)
                                ELSE run_ids)])

\* the payload of delete_runs and restore_runs: no filter for None, else
\* the run ids
RunsPayload(run_ids) ==
  IF run_ids = None
  THEN Dict(<<>>)
  ELSE Dict([filter |-> RunIdsFilter(run_ids)])


(***************************************************************************)
(* Inputs of the model.                                                    *)
(***************************************************************************)
FilterKeys == {None, Str("env")}

FilterValues ==
  {Uuid(1), PyInt(5), Str("prod"), Datetime(2), IsoFormat(Datetime(7))}

FilterOperatorInputs == {"EQUAL_TO"}

SortKeys == {None, Str("env")}

\* a further condition a caller adds to a compound filter
Sibling ==
  SingleFilterNew(Enum("SingleFilterBy", "TAG"), Str("team"),
                  Enum("SingleFilterOperator", "GREATER_THAN"), Str("ml"))

StartInputs == {None, PyInt(0)}

LimitInputs == {None, PyInt(10)}

\* the limit of the first page a fetch-all loop asks for
PageLimitInputs == {PyInt(5), PyInt(10)}

\* the responses of the server to a run query
QueryResponses ==
  {Response(200, Dict([pagination |->
                         Dict([start |-> PyInt(0), size |-> PyInt(0),
                               previous |-> None, next |-> None]),
                       runs |-> List(<<>>)])),
   Response(404, Text("not found"))}

\* the responses of the server to a request of the base client
HttpStatuses ==
  {200, 204, 302, 400, 401, 403, 404, 405, 409, 418, 500, 502, 503, 504}

HttpBodies ==
  {Text("invalid-json"), Dict([foo |-> Str("bar")]),
   Dict([bad |-> Str("json")]),
   Dict([foo |-> Str("bar"), extra |-> PyInt(1)])}

HttpMethods == {"GET", "POST", "PUT", "DELETE", "PATCH"}

\* the objects handed to schema.load directly
LoadInputs ==
  {Dict([unknown |-> Str("field")]), Dict([foo |-> Str("bar")]),
   Dict([bad |-> Str("json")]),
   Dict([foo |-> Str("bar"), extra |-> PyInt(1)])}

\* the arguments of the experiment client's operations
ExperimentNames == {Str("exp1"), Str("exp2")}

UpdateNames == {None, Str("exp1")}

Descriptions == {None, Str("about")}

ParentRunIds == {None, Uuid(1)}

TagInputs == {None, List(<<>>)}

DataInputs == {None, List(<<>>)}

StatusInputs == {None, Enum("ExperimentRunStatus", "FINISHED")}

EndedAtInputs == {None, Datetime(2)}

LifecycleStageInputs == {None, Enum("LifecycleStage", "ACTIVE")}

ExperimentIdInputs == {None, List(<<>>), List(<<PyInt(1)>>)}

\* None, or a list of run ids in any order, duplicates included
RunIdInputs ==
  {None} \cup {List(ids) :
                  ids \in UNION {[1..n -> Uuids] : n \in 0..MaxRunIds}}

\* the bodies of the server's 409 responses
ConflictBodies ==
  {Dict([errorCode |-> Str("experiment_name_conflict"),
         error |-> Str("name taken")]),
   Dict([errorCode |-> Str("experiment_deleted"),
         error |-> Str("experiment deleted"), experimentId |-> PyInt(7)]),
   Dict([errorCode |-> Str("experiment_deleted"),
         error |-> Str("experiment deleted")]),
   Dict([errorCode |-> Str("conflicting_params"),
         error |-> Str("params differ"),
         parameterKeys |-> List(<<Str("lr")>>)]),
   Dict([errorCode |-> Str("other_conflict"), error |-> Str("conflict")]),
   Dict([error |-> Str("conflict")]),
   Text("conflict")}

\* a body of the server that satisfies the schema
GoodBody(schema) ==
  CASE schema = "ExperimentSchema" ->
         Dict([experimentId |-> PyInt(7), name |-> Str("exp1"),
               description |-> Str("about"),
               artifactLocation |-> Str("s3://a"),
               createdAt |-> IsoFormat(Datetime(2)),
               lastUpdatedAt |-> IsoFormat(Datetime(2)),
               tracking |-> Str("on")])
    [] schema = "ExperimentSchema(many=True)" ->
         List(<<Dict([experimentId |-> PyInt(7), name |-> Str("exp1"),
                      description |-> Str("about"),
                      artifactLocation |-> Str("s3://a"),
                      createdAt |-> IsoFormat(Datetime(2)),
                      lastUpdatedAt |-> IsoFormat(Datetime(2))])>>)
    [] schema = "ExperimentRunSchema" ->
         Dict([runId |-> PyStr(Uuid(1)), runNumber |-> PyInt(1),
               experimentId |-> PyInt(7), name |-> Str("run"),
               artifactLocation |-> Str("s3://a"),
               status |-> Str("running"),
               startedAt |-> IsoFormat(Datetime(2)),
               tags |-> List(<<>>), params |-> List(<<>>),
               metrics |-> List(<<>>)])
    [] schema = "ListExperimentRunsResponseSchema" ->
         Dict([pagination |->
                 Dict([start |-> PyInt(0), size |-> PyInt(0),
                       previous |-> None, next |-> None]),
               runs |-> List(<<>>)])
    [] schema = "MetricHistorySchema" -> Dict([history |-> List(<<>>)])
    [] schema = "DeleteExperimentRunsResponseSchema" ->
         Dict([deletedRunIds |-> List(<<PyStr(Uuid(1))>>),
               conflictedRunIds |-> List(<<>>)])
    [] schema = "RestoreExperimentRunsResponseSchema" ->
         Dict([restoredRunIds |-> List(<<PyStr(Uuid(1))>>),
               conflictedRunIds |-> List(<<>>)])
    [] schema = "_AuthenticationResponseSchema" ->
         Dict([account |-> Dict([userId |-> PyStr(Uuid(2)),
                                 username |-> Str("ada")])])

\* the responses of the server to a typed request
ServerResponses(schema) ==
  {Response(200, GoodBody(schema)),
   Response(200, Dict([bad |-> Str("json")])),
   Response(404, Text("not found"))}
    \cup {Response(409, body) : body \in ConflictBodies}

\* the next pages the server names
NextPages ==
  {None, PageNew(PyInt(10), PyInt(10)), PageNew(PyInt(20), PyInt(5))}

\* the responses of the server to the request for a page of runs: a page
\* with its successor, or a failure
PageResponses ==
  {Response(200, Dict([pagination |->
                         Dict([start |-> PyInt(0), size |-> PyInt(0),
                               previous |-> None,
                               next |-> PageNestedSerialize(next)]),
                       runs |-> List(<<>>)])) : next \in NextPages}
    \cup {Response(503, Text("unavailable"))}

\* the responses of the server to a raw request
RawServerResponses ==
  {Response(204, Text("")), Response(404, Text("not found"))}
    \cup {Response(409, body) : body \in ConflictBodies}

RECURSIVE Nodes(_)

\* number of nodes of a filter (conditions that are None included)
Nodes(f) ==
  IF f.type = "CompoundFilter"
  THEN LET RECURSIVE Sum(_)
           Sum(i) == IF i = 0
                     THEN 0
                     ELSE Nodes(f.conditions.elems[i]) + Sum(i - 1)
       IN  1 + Sum(Len(f.conditions.elems))
  ELSE 1

\* number of objects the caller has built for the query
QuerySize ==
  (IF filter = None THEN 0 ELSE Nodes(filter))
  + (IF sort = None THEN 0 ELSE Len(sort.elems))

(***************************************************************************)
(* State machine: a caller builds a filter and a sort list, then calls     *)
(* query_runs; an exception ends the caller's program.                     *)
(***************************************************************************)
Init ==
  /\ pc = "build"
  /\ filter = None
  /\ sort = None
  /\ call = [op |-> "init", args |-> <<>>]
  /\ raised = None
  /\ result = None
  /\ wire = <<>>
  /\ http = None

\* filter = SingleFilter(by, key, operator, value)
NewSingleFilter(by, key, operator, value) ==
  /\ pc = "build"
  /\ filter = None
  /\ QuerySize < MaxQuerySize
  /\ call' = [op |-> "SingleFilter", args |-> <<by, key, operator, value>>]
  /\ LET new == SingleFilterNew(by, key, operator, value)
     IN  IF IsError(new)
         THEN /\ raised' = new
              /\ pc' = "raised"
              /\ filter' = filter
         ELSE /\ raised' = None
              /\ pc' = pc
              /\ filter' = new
  /\ UNCHANGED <<sort, result, wire, http>>

\* filter = CompoundFilter(operator, [filter]) or CompoundFilter(operator, [])
NewCompoundFilter(operator, conditions) ==
  /\ pc = "build"
  /\ conditions \in {List(<<filter>>)} \cup
                    (IF filter = None THEN {List(<<>>)} ELSE {})
  /\ QuerySize + Len(conditions.elems) + (IF filter = None THEN 0 ELSE -1)
       < MaxQuerySize
  /\ call' = [op |-> "CompoundFilter", args |-> <<operator, conditions>>]
  /\ filter' = CompoundFilterNew(operator, conditions)
  /\ raised' = None
  /\ UNCHANGED <<pc, sort, result, wire, http>>

\* filter.conditions.append(condition)
AppendCondition(condition) ==
  /\ pc = "build"
  /\ filter.type = "CompoundFilter"
  /\ QuerySize < MaxQuerySize
  /\ call' = [op |-> "append", args |-> <<condition>>]
  /\ filter' = [filter EXCEPT
                  !.conditions = List(Append(@.elems, condition))]
  /\ raised' = None
  /\ UNCHANGED <<pc, sort, result, wire, http>>

\* sort.append(Sort(by, key, order))
NewSort(by, key, order) ==
  /\ pc = "build"
  /\ QuerySize < MaxQuerySize
  /\ (IF sort = None THEN 0 ELSE Len(sort.elems)) < MaxSort
  /\ call' = [op |-> "Sort", args |-> <<by, key, order>>]
  /\ LET new == SortNew(by, key, order)
     IN  IF IsError(new)
         THEN /\ raised' = new
              /\ pc' = "raised"
              /\ sort' = sort
         ELSE /\ raised' = None
              /\ pc' = pc
              /\ sort' = IF sort = None
                         THEN List(<<new>>)
                         ELSE List(Append(sort.elems, new))
  /\ UNCHANGED <<filter, result, wire, http>>

\* a page built as soon as start is supplied
QueryRunsPageStartOnly(start, limit) ==
  IF start # None THEN PageNew(start, limit) ELSE None

\* the page of query_runs: present only if start and limit both are
QueryRunsPage(start, limit) ==
  IF start # None /\ limit # None THEN PageNew(start, limit) ELSE None

\* ExperimentClient.query_runs(project_id, filter, sort, start, limit), the
\* server answering with response
QueryRuns(start, limit, response) ==
  /\ pc = "build"
  /\ call' = [op |-> "query_runs", args |-> <<filter, sort, start, limit>>]
  /\ LET page == QueryRunsPage(start, limit)
         payload == QueryRunsSchemaDump(QueryRunsNew(filter, sort, page))
         outcome == RequestTyped(response,
                                 "ListExperimentRunsResponseSchema", TRUE)
     IN  IF IsError(payload)
         THEN /\ raised' = payload
              /\ pc' = "raised"
              /\ result' = None
              /\ wire' = wire
         ELSE /\ wire' = Append(wire, HttpRequest("POST",
                                  "/project/{}/run/query", payload))
              /\ IF IsError(outcome)
                 THEN /\ raised' = outcome
                      /\ pc' = "raised"
                      /\ result' = None
                 ELSE /\ raised' = None
                      /\ pc' = "done"
                      /\ result' = outcome
  /\ UNCHANGED <<filter, sort, http>>

\* FilterField()._deserialize(data), data being the wire encoding of the
\* caller's filter (fromWire) or the filter object itself
LoadFilter(fromWire) ==
  /\ pc = "build"
  /\ LET encoded == FilterFieldSerialize(filter,
                                         QueryRunsNew(filter, sort, None))
         data == IF fromWire THEN encoded ELSE filter
         loaded == FilterFieldDeserialize(data)
     IN  /\ ~IsError(data)
         /\ call' = [op |-> "load_filter", args |-> <<data>>]
         /\ IF IsError(loaded)
            THEN /\ raised' = loaded
                 /\ pc' = "raised"
                 /\ result' = None
            ELSE /\ raised' = None
                 /\ pc' = "done"
                 /\ result' = loaded
  /\ UNCHANGED <<filter, sort, wire, http>>

\* the caller starts a new program
Restart ==
  /\ pc # "build"
  /\ pc' = "build"
  /\ filter' = None
  /\ sort' = None
  /\ call' = [op |-> "init", args |-> <<>>]
  /\ raised' = None
  /\ result' = None
  /\ wire' = <<>>
  /\ http' = None

Next ==
  \/ \E by \in EnumMembers("SingleFilterBy"), key \in FilterKeys,
        operator \in FilterOperatorInputs, value \in FilterValues :
       NewSingleFilter(by, key, Enum("SingleFilterOperator", operator),
                       value)
  \/ \E operator \in EnumMembers("CompoundFilterOperator"),
        conditions \in {List(<<filter>>), List(<<>>)} :
       NewCompoundFilter(operator, conditions)
  \/ \E condition \in {None, Sibling} : AppendCondition(condition)
  \/ \E by \in EnumMembers("SortBy"), key \in SortKeys,
        order \in EnumMembers("SortOrder") :
       NewSort(by, key, order)
  \/ \E start \in StartInputs, limit \in LimitInputs,
        response \in QueryResponses :
       QueryRuns(start, limit, response)
  \/ \E fromWire \in BOOLEAN : LoadFilter(fromWire)
  \/ Restart

Spec == Init /\ [][Next]_vars

(***************************************************************************)
(* State machine of the base client: one request per step.                 *)
(***************************************************************************)
\* client._<method>(endpoint, DummySchema(), check_status=...) or
\* client._<method>_raw(endpoint, check_status=...)
BaseClientRequest(method, raw, check_status, response) ==
  /\ pc = "build"
  /\ call' = [op |-> "request", args |-> <<>>]
  /\ wire' = <<HttpRequest(method, "/endpoint", None)>>
  /\ http' = [type |-> "Exchange", method |-> method, raw |-> raw,
              check_status |-> check_status, response |-> response,
              outcome |-> IF raw
                          THEN RequestRaw(response, check_status)
                          ELSE RequestTyped(response, "DummySchema",
                                            check_status)]
  /\ raised' = None
  /\ result' = None
  /\ UNCHANGED <<pc, filter, sort>>

\* schema.load(data) called directly, schema being BaseSchema() or
\* DummySchema()
SchemaLoadCall(schema, data) ==
  /\ pc = "build"
  /\ call' = [op |-> "load", args |-> <<Str(schema), data>>]
  /\ LET loaded == SchemaLoad(schema, data)
     IN  IF IsError(loaded)
         THEN /\ raised' = loaded
              /\ result' = None
         ELSE /\ raised' = None
              /\ result' = loaded
  /\ wire' = <<>>
  /\ http' = None
  /\ UNCHANGED <<pc, filter, sort>>

NextHttp ==
  \/ \E method \in HttpMethods, raw \in BOOLEAN, check_status \in BOOLEAN,
        status_code \in HttpStatuses, body \in HttpBodies :
       BaseClientRequest(method, raw, check_status,
                         Response(status_code, body))
  \/ \E schema \in {"BaseSchema", "DummySchema"}, data \in LoadInputs :
       SchemaLoadCall(schema, data)

SpecHttp == Init /\ [][NextHttp]_vars


(***************************************************************************)
(* State machine of the domain clients: one call of a public operation of  *)
(* ExperimentClient or AccountClient, the server answering with response.  *)
(***************************************************************************)
\* the exchange of a call with the server
Exchange(method, raw, response, outcome) ==
  [type |-> "Exchange", method |-> method, raw |-> raw,
   check_status |-> TRUE, response |-> response, outcome |-> outcome]

\* the call returns value, or raises it if it is an exception
Return(value) ==
  IF IsError(value)
  THEN /\ raised' = value
       /\ result' = None
       /\ pc' = "raised"
  ELSE /\ raised' = None
       /\ result' = value
       /\ pc' = "done"

\* the call sends request and the server answers: the typed or raw
\* variant's outcome
Send(request, raw, response, schema) ==
  /\ wire' = Append(wire, request)
  /\ http' = Exchange(request.method, raw, response,
                      IF raw
                      THEN RequestRaw(response, TRUE)
                      ELSE RequestTyped(response, schema, TRUE))

\* ExperimentClient.create(project_id, name, description, artifact_location)
Create(name, description, artifact_location, response) ==
  /\ pc = "build"
  /\ call' = [op |-> "create",
              args |-> <<name, description, artifact_location>>]
  /\ Send(HttpRequest("POST", "/project/{}/experiment",
                      Dict([name |-> name, description |-> description,
                            artifactLocation |-> artifact_location])),
          FALSE, response, "ExperimentSchema")
  /\ Return(NameConflictHandler(http'.outcome, name))
  /\ UNCHANGED <<filter, sort>>

\* ExperimentClient.get(project_id, experiment_id)
Get(experiment_id, response) ==
  /\ pc = "build"
  /\ call' = [op |-> "get", args |-> <<experiment_id>>]
  /\ Send(HttpGetRequest("/project/{}/experiment/{}", None),
          FALSE, response, "ExperimentSchema")
  /\ Return(http'.outcome)
  /\ UNCHANGED <<filter, sort>>

\* ExperimentClient.list(project_id, lifecycle_stage)
ListExperiments(lifecycle_stage, response) ==
  /\ pc = "build"
  /\ call' = [op |-> "list", args |-> <<lifecycle_stage>>]
  /\ Send(HttpGetRequest("/project/{}/experiment",
                         IF lifecycle_stage # None
                         THEN Dict([lifecycleStage |->
                                      Str(EnumValue(lifecycle_stage))])
                         ELSE Dict(<<>>)),
          FALSE, response, "ExperimentSchema(many=True)")
  /\ Return(http'.outcome)
  /\ UNCHANGED <<filter, sort>>

\* ExperimentClient.update(project_id, experiment_id, name, description)
Update(experiment_id, name, description, response) ==
  /\ pc = "build"
  /\ call' = [op |-> "update", args |-> <<experiment_id, name, description>>]
  /\ Send(HttpRequest("PATCH", "/project/{}/experiment/{}",
                      Dict([name |-> name, description |-> description])),
          TRUE, response, "")
  /\ LET handled == NameConflictHandler(http'.outcome, name)
     IN  Return(IF IsError(handled) THEN handled ELSE None)
  /\ UNCHANGED <<filter, sort>>

\* ExperimentClient.delete(project_id, experiment_id)
Delete(experiment_id, response) ==
  /\ pc = "build"
  /\ call' = [op |-> "delete", args |-> <<experiment_id>>]
  /\ Send(HttpRequest("DELETE", "/project/{}/experiment/{}", None),
          TRUE, response, "")
  /\ Return(IF IsError(http'.outcome) THEN http'.outcome ELSE None)
  /\ UNCHANGED <<filter, sort>>

\* ExperimentClient.restore(project_id, experiment_id)
Restore(experiment_id, response) ==
  /\ pc = "build"
  /\ call' = [op |-> "restore", args |-> <<experiment_id>>]
  /\ Send(HttpRequest("PUT", "/project/{}/experiment/{}/restore", None),
          TRUE, response, "")
  /\ Return(IF IsError(http'.outcome) THEN http'.outcome ELSE None)
  /\ UNCHANGED <<filter, sort>>

\* ExperimentClient.create_run(project_id, experiment_id, name, started_at,
\* parent_run_id, artifact_location, tags)
CreateRun(experiment_id, name, started_at, parent_run_id, artifact_location, tags, response) ==
  /\ pc = "build"
  /\ call' = [op |-> "create_run",
              args |-> <<experiment_id, name, started_at, parent_run_id,
                         artifact_location, tags>>]
  /\ Send(HttpRequest("POST", "/project/{}/experiment/{}/run",
                      CreateRunSchemaDump(
                        [name |-> name, parent_run_id |-> parent_run_id,
                         started_at |-> started_at,
                         artifact_location |-> artifact_location,
                         tags |-> IF tags = None
                                  THEN List(<<>>)
                                  ELSE tags])),
          FALSE, response, "ExperimentRunSchema")
  /\ Return(ExperimentDeletedHandler(http'.outcome))
  /\ UNCHANGED <<filter, sort>>

\* ExperimentClient.get_run(project_id, run_id)
GetRun(run_id, response) ==
  /\ pc = "build"
  /\ call' = [op |-> "get_run", args |-> <<run_id>>]
  /\ Send(HttpGetRequest("/project/{}/run/{}", None),
          FALSE, response, "ExperimentRunSchema")
  /\ Return(http'.outcome)
  /\ UNCHANGED <<filter, sort>>

\* query parameters that leave out the start
ListRunsParamsNoStart(experiment_ids, start, limit) ==
  List((IF experiment_ids = None
        THEN <<>>
        ELSE [i \in 1..Len(experiment_ids.elems) |->
                <<"experimentId", experiment_ids.elems[i]>>])
       \o (IF limit # None THEN << <<"limit", limit>> >> ELSE <<>>))

\* the query parameters of list_runs
ListRunsParams(experiment_ids, start, limit) ==
  List((IF experiment_ids = None
        THEN <<>>
        ELSE [i \in 1..Len(experiment_ids.elems) |->
                <<"experimentId", experiment_ids.elems[i]>>])
       \o (IF start # None THEN << <<"start", start>> >> ELSE <<>>)
       \o (IF limit # None THEN << <<"limit", limit>> >> ELSE <<>>))

\* a list_runs that asks the server about an empty list too
ListRunsShortCircuitNever(experiment_ids) == FALSE

\* list_runs returns without a request for an explicit empty list of
\* experiment ids
ListRunsShortCircuit(experiment_ids) ==
  experiment_ids # None /\ Len(experiment_ids.elems) = 0

\* the response list_runs makes up for an empty list of experiment ids
EmptyListRunsResponse ==
  [type |-> "ListExperimentRunsResponse", runs |-> List(<<>>),
   pagination |-> [type |-> "Pagination", start |-> PyInt(0),
                   size |-> PyInt(0), previous |-> None, next |-> None]]

\* ExperimentClient.list_runs(project_id, experiment_ids, lifecycle_stage,
\* start, limit)
ListRuns(experiment_ids, lifecycle_stage, start, limit, response) ==
  /\ pc = "build"
  /\ call' = [op |-> "list_runs",
              args |-> <<experiment_ids, lifecycle_stage, start, limit>>]
  /\ IF lifecycle_stage # None
     THEN /\ Return(Error("NotImplementedError",
                          Str("lifecycle_stage is not supported.")))
          /\ UNCHANGED <<wire, http>>
     ELSE IF ListRunsShortCircuit(experiment_ids)
     THEN /\ Return(EmptyListRunsResponse)
          /\ UNCHANGED <<wire, http>>
     ELSE /\ Send(HttpGetRequest("/project/{}/run",
                                 ListRunsParams(experiment_ids, start,
                                                limit)),
                  FALSE, response, "ListExperimentRunsResponseSchema")
          /\ Return(http'.outcome)
  /\ UNCHANGED <<filter, sort>>

\* a test that skips the request as soon as one argument is None
NothingToLogAny(metrics, params, tags) ==
  \E kwarg \in {metrics, params, tags} : kwarg = None

\* all(kwarg is None for kwarg in [metrics, params, tags])
NothingToLog(metrics, params, tags) ==
  \A kwarg \in {metrics, params, tags} : kwarg = None

\* ExperimentClient.log_run_data(project_id, run_id, metrics, params, tags)
LogRunData(run_id, metrics, params, tags, response) ==
  /\ pc = "build"
  /\ call' = [op |-> "log_run_data",
              args |-> <<run_id, metrics, params, tags>>]
  /\ IF NothingToLog(metrics, params, tags)
     THEN /\ Return(None)
          /\ UNCHANGED <<wire, http>>
     ELSE /\ Send(HttpRequest("PATCH", "/project/{}/run/{}/data",
                              ExperimentRunDataSchemaDump(
                                [metrics |-> metrics, params |-> params,
                                 tags |-> tags])),
                  TRUE, response, "")
          /\ LET handled == ParamConflictHandler(http'.outcome)
             IN  Return(IF IsError(handled) THEN handled ELSE None)
  /\ UNCHANGED <<filter, sort>>

\* ExperimentClient.update_run_info(project_id, run_id, status, ended_at)
UpdateRunInfo(run_id, status, ended_at, response) ==
  /\ pc = "build"
  /\ call' = [op |-> "update_run_info",
              args |-> <<run_id, status, ended_at>>]
  /\ Send(HttpRequest("PATCH", "/project/{}/run/{}/info",
                      ExperimentRunInfoSchemaDump(
                        [status |-> status, ended_at |-> ended_at])),
          FALSE, response, "ExperimentRunSchema")
  /\ Return(http'.outcome)
  /\ UNCHANGED <<filter, sort>>

\* ExperimentClient.get_metric_history(project_id, run_id, key)
GetMetricHistory(run_id, key, response) ==
  /\ pc = "build"
  /\ call' = [op |-> "get_metric_history", args |-> <<run_id, key>>]
  /\ Send(HttpGetRequest("/project/{}/run/{}/metric/{}/history", None),
          FALSE, response, "MetricHistorySchema")
  /\ Return(http'.outcome)
  /\ UNCHANGED <<filter, sort>>

\* ExperimentClient.delete_runs(project_id, run_ids)
DeleteRuns(run_ids, response) ==
  /\ pc = "build"
  /\ call' = [op |-> "delete_runs", args |-> <<run_ids>>]
  /\ IF RunsShortCircuit(run_ids)
     THEN /\ Return([type |-> "DeleteExperimentRunsResponse",
                     deleted_run_ids |-> List(<<>>),
                     conflicted_run_ids |-> List(<<>>)])
          /\ UNCHANGED <<wire, http>>
     ELSE /\ Send(HttpRequest("POST", "/project/{}/run/delete/query",
                              RunsPayload(run_ids)),
                  FALSE, response, "DeleteExperimentRunsResponseSchema")
          /\ Return(http'.outcome)
  /\ UNCHANGED <<filter, sort>>

\* ExperimentClient.restore_runs(project_id, run_ids)
RestoreRuns(run_ids, response) ==
  /\ pc = "build"
  /\ call' = [op |-> "restore_runs", args |-> <<run_ids>>]
  /\ IF RunsShortCircuit(run_ids)
     THEN /\ Return([type |-> "RestoreExperimentRunsResponse",
                     restored_run_ids |-> List(<<>>),
                     conflicted_run_ids |-> List(<<>>)])
          /\ UNCHANGED <<wire, http>>
     ELSE /\ Send(HttpRequest("POST", "/project/{}/run/restore/query",
                              RunsPayload(run_ids)),
                  FALSE, response, "RestoreExperimentRunsResponseSchema")
          /\ Return(http'.outcome)
  /\ UNCHANGED <<filter, sort>>

\* AccountClient.authenticated_account()
AuthenticatedAccount(response) ==
  /\ pc = "build"
  /\ call' = [op |-> "authenticated_account", args |-> <<>>]
  /\ Send(HttpGetRequest("/authenticate", None),
          FALSE, response, "_AuthenticationResponseSchema")
  /\ Return(IF IsError(http'.outcome)
            THEN http'.outcome
            ELSE http'.outcome.account)
  /\ UNCHANGED <<filter, sort>>

\* AccountClient.authenticated_user_id()
AuthenticatedUserId(response) ==
  /\ pc = "build"
  /\ call' = [op |-> "authenticated_user_id", args |-> <<>>]
  /\ Send(HttpGetRequest("/authenticate", None),
          FALSE, response, "_AuthenticationResponseSchema")
  /\ Return(IF IsError(http'.outcome)
            THEN http'.outcome
            ELSE http'.outcome.account.user_id)
  /\ UNCHANGED <<filter, sort>>

NextClient ==
  \/ \E name \in ExperimentNames, description \in Descriptions,
        response \in ServerResponses("ExperimentSchema") :
       Create(name, description, None, response)
  \/ \E response \in ServerResponses("ExperimentSchema") :
       Get(PyInt(7), response)
  \/ \E lifecycle_stage \in LifecycleStageInputs,
        response \in ServerResponses("ExperimentSchema(many=True)") :
       ListExperiments(lifecycle_stage, response)
  \/ \E name \in UpdateNames, description \in Descriptions,
        response \in RawServerResponses :
       Update(PyInt(7), name, description, response)
  \/ \E response \in RawServerResponses : Delete(PyInt(7), response)
  \/ \E response \in RawServerResponses : Restore(PyInt(7), response)
  \/ \E parent_run_id \in ParentRunIds, tags \in TagInputs,
        response \in ServerResponses("ExperimentRunSchema") :
       CreateRun(PyInt(7), Str("run"), Datetime(2), parent_run_id, None,
                 tags, response)
  \/ \E response \in ServerResponses("ExperimentRunSchema") :
       GetRun(Uuid(1), response)
  \/ \E experiment_ids \in ExperimentIdInputs,
        lifecycle_stage \in LifecycleStageInputs,
        start \in StartInputs, limit \in LimitInputs,
        response \in ServerResponses("ListExperimentRunsResponseSchema") :
       ListRuns(experiment_ids, lifecycle_stage, start, limit, response)
  \/ \E start \in StartInputs, limit \in LimitInputs,
        response \in QueryResponses :
       QueryRuns(start, limit, response)
  \/ \E metrics \in DataInputs, params \in DataInputs, tags \in DataInputs,
        response \in RawServerResponses :
       LogRunData(Uuid(1), metrics, params, tags, response)
  \/ \E status \in StatusInputs, ended_at \in EndedAtInputs,
        response \in ServerResponses("ExperimentRunSchema") :
       UpdateRunInfo(Uuid(1), status, ended_at, response)
  \/ \E response \in ServerResponses("MetricHistorySchema") :
       GetMetricHistory(Uuid(1), Str("loss"), response)
  \/ \E run_ids \in RunIdInputs,
        response \in ServerResponses("DeleteExperimentRunsResponseSchema") :
       DeleteRuns(run_ids, response)
  \/ \E run_ids \in RunIdInputs,
        response \in ServerResponses("RestoreExperimentRunsResponseSchema") :
       RestoreRuns(run_ids, response)
  \/ \E response \in ServerResponses("_AuthenticationResponseSchema") :
       AuthenticatedAccount(response)
  \/ \E response \in ServerResponses("_AuthenticationResponseSchema") :
       AuthenticatedUserId(response)

SpecClient == Init /\ [][NextClient]_vars


(***************************************************************************)
(* State machine of a caller that fetches all runs as the docstrings of    *)
(* list_runs and query_runs describe: successive calls, passing the start  *)
(* and limit of the next page each time until next is None.  The server    *)
(* holds at most MaxPages pages, so that its last page names no successor. *)
(***************************************************************************)
\* one call of list_runs or query_runs (no filter, no sort) for a page
FetchPage(method, start, limit, response) ==
  /\ call' = [op |-> method, args |-> <<start, limit>>]
  /\ Send(IF method = "list_runs"
          THEN HttpGetRequest("/project/{}/run",
                              ListRunsParams(None, start, limit))
          ELSE HttpRequest("POST", "/project/{}/run/query",
                           QueryRunsSchemaDump(
                             QueryRunsNew(None, None,
                                          QueryRunsPage(start, limit)))),
          FALSE, response, "ListExperimentRunsResponseSchema")
  /\ IF IsError(http'.outcome)
     THEN /\ raised' = http'.outcome
          /\ result' = None
          /\ pc' = "raised"
     ELSE /\ raised' = None
          /\ result' = http'.outcome
          /\ pc' = "loop"
  /\ UNCHANGED <<filter, sort>>

\* the server's last page names no successor
LastPageEnds(response) ==
  Len(wire) + 1 >= MaxPages =>
    (response.body.type = "dict" =>
       response.body.items.pagination.items.next = None)

\* response = client.<method>(project_id, start=start, limit=limit)
FirstPage(method, start, limit, response) ==
  /\ pc = "build"
  /\ LastPageEnds(response)
  /\ FetchPage(method, start, limit, response)

\* while response.pagination.next is not None: call again with the start
\* and limit of next
NextPage(response) ==
  /\ pc = "loop"
  /\ result.pagination.next # None
  /\ LastPageEnds(response)
  /\ FetchPage(call.op, result.pagination.next.start,
               result.pagination.next.limit, response)

\* response.pagination.next is None: the loop ends
LoopEnds ==
  /\ pc = "loop"
  /\ result.pagination.next = None
  /\ pc' = "done"
  /\ UNCHANGED <<filter, sort, call, raised, result, wire, http>>

NextPaging ==
  \/ \E method \in {"list_runs", "query_runs"}, start \in StartInputs,
        limit \in PageLimitInputs, response \in PageResponses :
       FirstPage(method, start, limit, response)
  \/ \E response \in PageResponses : NextPage(response)
  \/ LoopEnds

\* the loop is synchronous code: the caller runs on as soon as the blocking
\* call returns
SpecPaging == Init /\ [][NextPaging]_vars /\ WF_vars(NextPaging)


(***************************************************************************)
(* Properties.                                                             *)
(***************************************************************************)
KeyedFields == {"TAG", "PARAM", "METRIC"}

\* C1: SingleFilter(by, key, operator, value) succeeds, yielding the value
\* with exactly those fields, iff (key is not None) equals "by is TAG, PARAM
\* or METRIC"; every other (by, key) pair raises ValueError and yields no
\* SingleFilter, whatever operator and value are.
SingleFilterKeyPresence ==
  call.op = "SingleFilter" =>
    LET by == call.args[1]
        key == call.args[2]
    IN  IF (key # None) = (by.name \in KeyedFields)
        THEN /\ raised = None
             /\ pc = "build"
             /\ filter = [type |-> "SingleFilter", by |-> by, key |-> key,
                          operator |-> call.args[3], value |-> call.args[4]]
        ELSE /\ IsError(raised)
             /\ raised.cls = "ValueError"
             /\ pc = "raised"
             /\ filter = None

\* a key was given to a filter field that takes none, and was rejected
SingleFilterRejected ==
  /\ call.op = "SingleFilter"
  /\ call.args[1].name = "DELETED_AT"
  /\ call.args[2] # None
  /\ pc = "raised"

\* C2: Sort(by, key, order) succeeds iff (key is not None) equals "by is
\* TAG, PARAM or METRIC"; every other (by, key) pair raises ValueError, for
\* ASC and for DESC.
SortKeyPresence ==
  call.op = "Sort" =>
    LET by == call.args[1]
        key == call.args[2]
    IN  IF (key # None) = (by.name \in KeyedFields)
        THEN /\ raised = None
             /\ pc = "build"
             /\ sort # None
             /\ sort.elems[Len(sort.elems)] =
                  [type |-> "Sort", by |-> by, key |-> key,
                   order |-> call.args[3]]
        ELSE /\ IsError(raised)
             /\ raised.cls = "ValueError"
             /\ pc = "raised"

\* a keyed sort field was given no key, and was rejected
SortRejected ==
  /\ call.op = "Sort"
  /\ call.args[1].name = "METRIC"
  /\ call.args[2] = None
  /\ call.args[3].name = "DESC"
  /\ pc = "raised"


\* the wire forms of the identifiers and date-times of the model
UuidStrings == {"00000000-0000-0000-0000-000000000001"}

DecimalStrings == {"5"}

IsoStrings == {"2018-03-10T11:39:12+00:00", "2018-03-10T11:39:17+00:00"}

\* whether a value is a date-time, as an object or as a string
IsDatetimeValue(value) ==
  \/ value.type = "datetime"
  \/ /\ value.type = "str"
     /\ value.s \in IsoStrings \cup {"2018-03-10 11:39:12+00:00",
                                      "2018-03-10 11:39:17+00:00"}

\* whether the type of a filter value fits the by field
TypeFits(by, value) ==
  CASE by.name \in {"PROJECT_ID", "RUN_ID"} -> value.type = "UUID"
    [] by.name = "EXPERIMENT_ID" -> value.type = "int"
    [] by.name = "DELETED_AT" -> IsDatetimeValue(value)
    [] OTHER -> TRUE

RECURSIVE ContainsNone(_)

\* whether some condition of a filter, at any depth, is None
ContainsNone(f) ==
  /\ f.type = "CompoundFilter"
  /\ \E i \in 1..Len(f.conditions.elems) :
       \/ f.conditions.elems[i] = None
       \/ ContainsNone(f.conditions.elems[i])

RECURSIVE ContainsMisfit(_)

\* whether some single filter of a filter has a value that does not fit
ContainsMisfit(f) ==
  CASE f.type = "SingleFilter" -> ~TypeFits(f.by, f.value)
    [] f.type = "CompoundFilter" ->
         \E i \in 1..Len(f.conditions.elems) :
           ContainsMisfit(f.conditions.elems[i])
    [] OTHER -> FALSE

RECURSIVE WireFilterValid(_)

\* whether a JSON filter is one the run-query endpoint accepts
WireFilterValid(json) ==
  /\ json.type = "dict"
  /\ IF "conditions" \in DOMAIN json.items
     THEN /\ json.items.operator \in {Str("and"), Str("or")}
          /\ json.items.conditions.type = "list"
          /\ \A i \in 1..Len(json.items.conditions.elems) :
               WireFilterValid(json.items.conditions.elems[i])
     ELSE /\ json.items.value.type = "str"
          /\ CASE json.items.by \in {Str("projectId"), Str("runId")} ->
                    /\ json.items.key = None
                    /\ json.items.value.s \in UuidStrings
               [] json.items.by = Str("experimentId") ->
                    /\ json.items.key = None
                    /\ json.items.value.s \in DecimalStrings
               [] json.items.by = Str("deletedAt") ->
                    /\ json.items.key = None
                    /\ json.items.value.s \in IsoStrings
               [] json.items.by \in {Str("tag"), Str("param"),
                                     Str("metric")} ->
                    json.items.key.type = "str"
               [] OTHER -> FALSE

\* whether a JSON sort list is one the run-query endpoint accepts
WireSortValid(json) ==
  \/ json = None
  \/ /\ json.type = "list"
     /\ \A i \in 1..Len(json.elems) :
          (json.elems[i].items.key # None)
            = (json.elems[i].items.by \in {Str("tag"), Str("param"),
                                           Str("metric")})

\* C3: an invalid query never reaches the wire.  A filter or sort whose key
\* presence is wrong fails at construction and ends the caller's program
\* with nothing sent; query_runs called with a filter that has a None inner
\* condition or a value whose type does not fit its by field raises before
\* any request is issued; so every request to /project/{id}/run/query
\* carries a valid filter and a valid sort.
InvalidQueryNeverSent ==
  /\ (call.op \in {"SingleFilter", "Sort"} /\ IsError(raised)) =>
       (wire = <<>> /\ pc = "raised")
  /\ (call.op = "query_runs"
        /\ (ContainsNone(call.args[1]) \/ ContainsMisfit(call.args[1]))) =>
       (IsError(raised) /\ wire = <<>>)
  /\ \A i \in 1..Len(wire) :
       wire[i].endpoint = "/project/{}/run/query" =>
         /\ \/ wire[i].json.items.filter = None
            \/ WireFilterValid(wire[i].json.items.filter)
         /\ WireSortValid(wire[i].json.items.sort)

\* query_runs was called with an experiment filter on a string, and raised
InvalidQueryRaised ==
  /\ call.op = "query_runs"
  /\ call.args[1].type = "SingleFilter"
  /\ call.args[1].by.name = "EXPERIMENT_ID"
  /\ call.args[1].value = Str("prod")
  /\ pc = "raised"
  /\ wire = <<>>

\* C4: decoding the encoding of a well-formed SingleFilter or
\* CompoundFilter yields a value equal to that filter.
FilterRoundTrip ==
  (call.op = "load_filter" /\ call.args[1].type = "dict") =>
    (raised = None /\ result = filter)

\* C5: decoding a JSON object with a "conditions" key decodes it as a
\* CompoundFilter, decoding any other JSON object decodes it as a
\* SingleFilter, and a null filter decodes to no filter.
FilterDecodeDispatch ==
  call.op = "load_filter" =>
    LET data == call.args[1]
        outcome == IF IsError(raised) THEN raised ELSE result
    IN  /\ data = None => outcome = None
        /\ data.type = "dict" =>
             outcome = IF "conditions" \in DOMAIN data.items
                       THEN CompoundFilterSchemaLoad(data)
                       ELSE SingleFilterSchemaLoad(data)

\* the string form of the values of the model
StringForm(value) ==
  CASE value = Uuid(1) -> Str("00000000-0000-0000-0000-000000000001")
    [] value = PyInt(5) -> Str("5")
    [] value = Datetime(2) -> Str("2018-03-10 11:39:12+00:00")
    [] OTHER -> value

\* C6: the encoding of a SingleFilter's value is directed by its by field:
\* EXPERIMENT_ID with an integer gives the decimal string, PROJECT_ID and
\* RUN_ID with a UUID give the canonical string, TAG, PARAM and METRIC give
\* the string form of the value, DELETED_AT gives the ISO-8601 string,
\* whether the date-time is an object or a string.
FilterValueEncoding ==
  (call.op = "query_runs" /\ call.args[1].type = "SingleFilter") =>
    LET f == call.args[1]
        Sent(string) ==
          /\ wire # <<>>
          /\ wire[1].json.items.filter.items.value = Str(string)
    IN  /\ (f.by.name = "EXPERIMENT_ID" /\ f.value = PyInt(5)) => Sent("5")
        /\ (f.by.name \in {"PROJECT_ID", "RUN_ID"} /\ f.value = Uuid(1)) =>
             Sent("00000000-0000-0000-0000-000000000001")
        /\ f.by.name \in KeyedFields => Sent(StringForm(f.value).s)
        /\ (f.by.name = "DELETED_AT" /\ f.value = Datetime(2)) =>
             Sent("2018-03-10T11:39:12+00:00")
        /\ (f.by.name = "DELETED_AT"
              /\ f.value = Str("2018-03-10T11:39:17+00:00")) =>
             Sent("2018-03-10T11:39:17+00:00")

\* a deletedAt filter on a datetime object was sent
DeletedAtFilterSent ==
  /\ call.op = "query_runs"
  /\ call.args[1].type = "SingleFilter"
  /\ call.args[1].by.name = "DELETED_AT"
  /\ call.args[1].value = Datetime(2)
  /\ wire # <<>>

\* C7: encoding a SingleFilter whose value does not fit its by field (a
\* non-UUID for PROJECT_ID or RUN_ID, a non-integer for EXPERIMENT_ID, a
\* value that is not a date-time for DELETED_AT) fails with
\* RunQueryFilterValidation carrying the value, and nothing is encoded.
MisfitRaisesFilterValidation ==
  (call.op = "query_runs" /\ call.args[1].type = "SingleFilter"
     /\ ~TypeFits(call.args[1].by, call.args[1].value)) =>
    /\ IsError(raised)
    /\ raised.cls = "RunQueryFilterValidation"
    /\ raised.value = call.args[1].value
    /\ wire = <<>>

\* C8: a query with filter None is encoded with an explicit null filter,
\* whereas a None among the conditions of a CompoundFilter, at any depth,
\* fails with RunQueryFilterValidation.
NoneOnlyAtTopLevel ==
  call.op = "query_runs" =>
    /\ call.args[1] = None =>
         (wire # <<>> /\ wire[1].json.items.filter = None)
    /\ ContainsNone(call.args[1]) =>
         /\ IsError(raised)
         /\ raised.cls = "RunQueryFilterValidation"
         /\ wire = <<>>

\* C9: the encoding of a query's sort list has as many elements as the
\* list, the i-th being the encoding of the i-th Sort.
SortOrderPreserved ==
  (call.op = "query_runs" /\ wire # <<>>) =>
    LET sorts == call.args[2]
        sent == wire[1].json.items.sort
    IN  IF sorts = None
        THEN sent = None
        ELSE /\ sent.type = "list"
             /\ Len(sent.elems) = Len(sorts.elems)
             /\ \A i \in 1..Len(sorts.elems) :
                  sent.elems[i] =
                    Dict([by |-> Str(EnumValue(sorts.elems[i].by)),
                          key |-> sorts.elems[i].key,
                          order |-> Str(EnumValue(sorts.elems[i].order))])

\* [Sort(STARTED_AT, None, DESC), Sort(TAG, "env", ASC)] was sent
TwoSortsSent ==
  /\ call.op = "query_runs"
  /\ wire # <<>>
  /\ call.args[2] =
       List(<<[type |-> "Sort", by |-> Enum("SortBy", "STARTED_AT"),
               key |-> None, order |-> Enum("SortOrder", "DESC")],
              [type |-> "Sort", by |-> Enum("SortBy", "TAG"),
               key |-> Str("env"), order |-> Enum("SortOrder", "ASC")]>>)
  /\ Len(wire[1].json.items.sort.elems) = 2

\* the error class the taxonomy gives a status code
ExpectedErrorClass(status_code) ==
  LET known == (400 :> "BadRequest" @@ 401 :> "Unauthorized"
                @@ 403 :> "Forbidden" @@ 404 :> "NotFound"
                @@ 405 :> "MethodNotAllowed" @@ 409 :> "Conflict"
                @@ 500 :> "InternalServerError" @@ 502 :> "BadGateway"
                @@ 503 :> "ServiceUnavailable" @@ 504 :> "GatewayTimeout")
  IN  IF status_code \in DOMAIN known
      THEN known[status_code]
      ELSE "HttpError"

\* C10: with check_status true, for every verb, typed or raw, a non-2xx
\* response never returns normally: it raises the error of its status code
\* (400 BadRequest, ..., 504 GatewayTimeout), HttpError for any other code.
StatusErrorMapping ==
  (http # None /\ http.check_status
     /\ (http.response.status_code < 200
           \/ http.response.status_code > 299)) =>
    /\ IsError(http.outcome)
    /\ http.outcome.cls = ExpectedErrorClass(http.response.status_code)

\* a raw DELETE answered 418 raised HttpError
TeapotRaisedHttpError ==
  /\ http # None
  /\ http.method = "DELETE"
  /\ http.raw
  /\ http.check_status
  /\ http.response.status_code = 418
  /\ IsError(http.outcome)
  /\ http.outcome.cls = "HttpError"

\* C11: with check_status false no status error is raised, for every verb
\* and every status code: the raw variant returns the transport response
\* untouched, the typed variant decodes the body (yielding the object of a
\* well-formed body, InvalidResponse otherwise).
NoStatusErrorWithoutCheck ==
  (http # None /\ ~http.check_status) =>
    IF http.raw
    THEN http.outcome = http.response
    ELSE /\ IsError(http.outcome) => http.outcome.cls = "InvalidResponse"
         /\ http.response.body = Dict([foo |-> Str("bar")]) =>
              http.outcome = [type |-> "DummyObject", foo |-> Str("bar")]

\* a raw GET answered 500 with check_status false returned the response
UncheckedRawReturned500 ==
  /\ http # None
  /\ http.method = "GET"
  /\ http.raw
  /\ ~http.check_status
  /\ http.response.status_code = 500
  /\ http.outcome = http.response

\* the status check let the exchange through to the decoding of the body
StatusPassed ==
  /\ http # None
  /\ ~http.raw
  /\ (http.check_status => http.response.status_code \in 200..299)

\* C12: for every verb's typed variant, a body that is not JSON raises
\* InvalidResponse "not valid JSON" (never the schema message), and a JSON
\* body that fails the schema raises InvalidResponse "does not match
\* expected format".
BodyFailureClassification ==
  StatusPassed =>
    /\ http.response.body.type = "text" =>
         http.outcome = Error("InvalidResponse", Str("not valid JSON"))
    /\ (http.response.body.type = "dict"
          /\ "foo" \notin DOMAIN http.response.body.items) =>
         http.outcome = Error("InvalidResponse",
                              Str("does not match expected format"))

\* a typed POST answered 200 with a body that is not JSON raised
\* InvalidResponse "not valid JSON"
NonJsonBodyRaised ==
  /\ StatusPassed
  /\ http.method = "POST"
  /\ http.response.status_code = 200
  /\ http.response.body = Text("invalid-json")
  /\ http.outcome = Error("InvalidResponse", Str("not valid JSON"))

\* the object without the keys the schema does not declare
WithoutUnknown(schema, data) ==
  Dict([k \in {f \in DOMAIN data.items :
                 f \in (IF schema = "DummySchema" THEN {"foo"} ELSE {})} |->
          data.items[k]])

\* the outcome of the last call, raised or returned
Outcome == IF raised # None THEN raised ELSE result

\* C13: unknown keys are ignored, never rejected: loading an object yields
\* what loading it without its undeclared keys yields, and an object whose
\* declared part is well-formed loads without error ({"unknown": "field"}
\* against the empty base schema yields the empty record).
UnknownKeysIgnored ==
  call.op = "load" =>
    LET schema == call.args[1].s
        data == call.args[2]
        stripped == WithoutUnknown(schema, data)
    IN  /\ IsError(Outcome) = IsError(SchemaLoad(schema, stripped))
        /\ ~IsError(Outcome) => Outcome = SchemaLoad(schema, stripped)
        /\ schema = "BaseSchema" => Outcome = Dict(<<>>)
        /\ (schema = "DummySchema" /\ stripped = Dict([foo |-> Str("bar")]))
             => Outcome = [type |-> "DummyObject", foo |-> Str("bar")]

\* {"unknown": "field"} loaded by the empty base schema gave the empty record
UnknownFieldLoadedEmpty ==
  /\ call.op = "load"
  /\ call.args = <<Str("BaseSchema"), Dict([unknown |-> Str("field")])>>
  /\ raised = None
  /\ result = Dict(<<>>)

\* the last call was answered 409 with this error code in the body ("" for
\* a body without one)
AnsweredConflict(code) ==
  /\ http # None
  /\ http.response.status_code = 409
  /\ code = IF /\ http.response.body.type = "dict"
               /\ "errorCode" \in DOMAIN http.response.body.items
            THEN http.response.body.items.errorCode.s
            ELSE ""

\* the name the caller of create or update attempted to use, as printed
AttemptedName ==
  LET name == IF call.op = "create" THEN call.args[1] ELSE call.args[2]
  IN  IF name = None THEN "None" ELSE name.s

\* C14: create and update answered 409 with error code
\* "experiment_name_conflict" raise ExperimentNameConflict, whose message
\* carries the name the caller attempted to use, not a generic Conflict.
NameConflictSurfaced ==
  (call.op \in {"create", "update"}
     /\ AnsweredConflict("experiment_name_conflict")) =>
    /\ pc = "raised"
    /\ raised = Error("ExperimentNameConflict",
                      Str("An experiment with name '" \o AttemptedName
                            \o "' already exists in that project"))

\* create of "exp2" answered with a name conflict raised
\* ExperimentNameConflict naming exp2
CreateRaisedNameConflict ==
  /\ call.op = "create"
  /\ call.args[1] = Str("exp2")
  /\ AnsweredConflict("experiment_name_conflict")
  /\ IsError(raised)
  /\ raised.cls = "ExperimentNameConflict"
  /\ raised.value =
       Str("An experiment with name 'exp2' already exists in that project")

\* the error code an operation reinterprets
RecognisedCode ==
  [create |-> "experiment_name_conflict",
   update |-> "experiment_name_conflict",
   create_run |-> "experiment_deleted",
   log_run_data |-> "conflicting_params"]

\* C15: in create, update, create_run and log_run_data a 409 whose error
\* code is not the one the operation recognises, or is absent, reaches the
\* caller as the base client's Conflict, unchanged: it is neither swallowed
\* nor turned into another error.
UnrecognisedConflictPropagates ==
  (call.op \in DOMAIN RecognisedCode
     /\ http # None
     /\ http.response.status_code = 409
     /\ ~AnsweredConflict(RecognisedCode[call.op])) =>
    /\ pc = "raised"
    /\ raised = http.outcome
    /\ raised = Error("Conflict", http.response)

\* log_run_data answered 409 without an error code raised Conflict
LogRunDataRaisedConflict ==
  /\ call.op = "log_run_data"
  /\ AnsweredConflict("")
  /\ raised = Error("Conflict", http.response)

\* C16: create_run answered 409 "experiment_deleted" raises
\* ExperimentDeleted whose experiment_id is the body's experimentId;
\* log_run_data answered 409 "conflicting_params" raises ParamConflict whose
\* conflicting_params is the body's parameterKeys.
ConflictContextCarried ==
  /\ (call.op = "create_run"
        /\ AnsweredConflict("experiment_deleted")
        /\ "experimentId" \in DOMAIN http.response.body.items) =>
       /\ IsError(raised)
       /\ raised.cls = "ExperimentDeleted"
       /\ raised.value.experiment_id =
            http.response.body.items.experimentId
  /\ (call.op = "log_run_data"
        /\ AnsweredConflict("conflicting_params")
        /\ "parameterKeys" \in DOMAIN http.response.body.items) =>
       /\ IsError(raised)
       /\ raised.cls = "ParamConflict"
       /\ raised.value.conflicting_params =
            http.response.body.items.parameterKeys

\* log_run_data answered with conflicting params raised ParamConflict
\* carrying the key "lr"
ParamConflictCarriedKeys ==
  /\ call.op = "log_run_data"
  /\ AnsweredConflict("conflicting_params")
  /\ IsError(raised)
  /\ raised.cls = "ParamConflict"
  /\ raised.value.conflicting_params = List(<<Str("lr")>>)

\* C17: delete_runs and restore_runs called with an explicit empty list of
\* ids return an empty result (both id lists empty) and send no request.
EmptyIdListNoRequest ==
  (call.op \in {"delete_runs", "restore_runs"}
     /\ call.args[1] = List(<<>>)) =>
    /\ wire = <<>>
    /\ pc = "done"
    /\ result = IF call.op = "delete_runs"
                THEN [type |-> "DeleteExperimentRunsResponse",
                      deleted_run_ids |-> List(<<>>),
                      conflicted_run_ids |-> List(<<>>)]
                ELSE [type |-> "RestoreExperimentRunsResponse",
                      restored_run_ids |-> List(<<>>),
                      conflicted_run_ids |-> List(<<>>)]

\* restore_runs([]) returned with nothing on the wire
RestoreNothingReturned ==
  /\ call.op = "restore_runs"
  /\ call.args[1] = List(<<>>)
  /\ pc = "done"
  /\ wire = <<>>

\* C18: delete_runs and restore_runs called with run_ids None send exactly
\* one POST, to .../run/delete/query and .../run/restore/query
\* respectively, whose body holds no filter; None is never treated like
\* the empty list.
NoneIdsAffectAll ==
  (call.op \in {"delete_runs", "restore_runs"} /\ call.args[1] = None) =>
    /\ Len(wire) = 1
    /\ wire[1].method = "POST"
    /\ wire[1].endpoint = IF call.op = "delete_runs"
                          THEN "/project/{}/run/delete/query"
                          ELSE "/project/{}/run/restore/query"
    /\ wire[1].json.type = "dict"
    /\ DOMAIN wire[1].json.items = {}

\* delete_runs(None) returned the server's answer to its one request
DeleteAllAnswered ==
  /\ call.op = "delete_runs"
  /\ call.args[1] = None
  /\ Len(wire) = 1
  /\ pc = "done"
  /\ result.type = "DeleteExperimentRunsResponse"
  /\ result.deleted_run_ids = List(<<Uuid(1)>>)

\* the last call is a call of a public operation of a client
ClientCalled == call.op \notin {"init", "request", "load", "load_filter"}

\* C20 as stated: every call of a public operation, whatever its arguments,
\* sends exactly one HTTP request before it returns or raises.
ExactlyOneRoundTrip ==
  (ClientCalled /\ pc \in {"done", "raised"}) => Len(wire) = 1

\* the arguments with which an operation returns or raises before it
\* reaches the transport
ReturnsBeforeRequest ==
  \/ /\ call.op = "log_run_data"
     /\ call.args[2] = None
     /\ call.args[3] = None
     /\ call.args[4] = None
  \/ /\ call.op = "list_runs"
     /\ (call.args[2] # None \/ call.args[1] = List(<<>>))
  \/ /\ call.op \in {"delete_runs", "restore_runs"}
     /\ call.args[1] = List(<<>>)
  \/ /\ call.op = "query_runs"
     /\ IsError(QueryRunsSchemaDump(
                  QueryRunsNew(call.args[1], call.args[2], None)))

\* C20: every call of a public operation sends at most one HTTP request,
\* never a second one: exactly one, unless it returns or raises before it
\* reaches the transport (log_run_data with nothing to log, list_runs with
\* an empty list of experiment ids or a lifecycle stage, delete_runs and
\* restore_runs with an empty list, query_runs with a filter that fails to
\* encode), in which case none.
OneRoundTripUnlessShortCircuit ==
  (ClientCalled /\ pc \in {"done", "raised"}) =>
    Len(wire) = IF ReturnsBeforeRequest THEN 0 ELSE 1

\* log_run_data with metrics, params and tags all None returned without a
\* request
LogRunDataSentNothing ==
  /\ call.op = "log_run_data"
  /\ call.args[2] = None
  /\ call.args[3] = None
  /\ call.args[4] = None
  /\ pc = "done"
  /\ wire = <<>>

\* the start and limit a request for a page of runs carries
RequestPage(request) ==
  IF request.method = "GET"
  THEN LET at(key) ==
             {request.params.elems[i][2] :
                i \in {j \in 1..Len(request.params.elems) :
                         request.params.elems[j][1] = key}}
       IN  [start |-> at("start"), limit |-> at("limit")]
  ELSE [start |-> {request.json.items.page.items.start},
        limit |-> {request.json.items.page.items.limit}]

\* the caller holds a response that names a next page
NextNamed == pc = "loop" /\ result.pagination.next # None

\* C19: in a fetch-all loop over list_runs or query_runs, a response whose
\* next is Page(start=s, limit=l) makes the following request carry exactly
\* start=s and limit=l; a response whose next is None ends the loop with no
\* further request; and, the server eventually answering with next None,
\* the loop terminates.
PaginationProtocol ==
  /\ [][NextNamed =>
          /\ Len(wire') = Len(wire) + 1
          /\ RequestPage(wire'[Len(wire')]) =
               [start |-> {result.pagination.next.start},
                limit |-> {result.pagination.next.limit}]]_vars
  /\ [][(pc = "loop" /\ ~NextNamed) => (pc' = "done" /\ wire' = wire)]_vars
  /\ [][pc = "done" => wire' = wire]_vars
  /\ <>(pc \in {"done", "raised"})

\* a loop over list_runs ended after its third request, which asked for the
\* page (20, 5) the second response named
ThreePagesFetched ==
  /\ pc = "done"
  /\ call.op = "list_runs"
  /\ Len(wire) = 3
  /\ RequestPage(wire[3]) = [start |-> {PyInt(20)}, limit |-> {PyInt(5)}]
  /\ result.pagination.next = None

\* the keys of the query parameters of a GET request
ParamKeys(request) ==
  {request.params.elems[i][1] : i \in 1..Len(request.params.elems)}

\* C21: list_runs (no lifecycle stage) called with an explicit empty list of
\* experiment ids returns, whatever start and limit are, a response with no
\* runs and Pagination(start=0, size=0, previous=None, next=None) and sends
\* no request; called with experiment_ids None it sends one request that
\* carries no experimentId parameter.
EmptyExperimentIdsNoRequest ==
  (call.op = "list_runs" /\ call.args[2] = None) =>
    /\ call.args[1] = List(<<>>) =>
         /\ wire = <<>>
         /\ pc = "done"
         /\ result.type = "ListExperimentRunsResponse"
         /\ result.runs = List(<<>>)
         /\ result.pagination =
              [type |-> "Pagination", start |-> PyInt(0), size |-> PyInt(0),
               previous |-> None, next |-> None]
    /\ call.args[1] = None =>
         /\ Len(wire) = 1
         /\ wire[1].method = "GET"
         /\ wire[1].endpoint = "/project/{}/run"
         /\ "experimentId" \notin ParamKeys(wire[1])

\* list_runs(experiment_ids=[], start=0, limit=10) returned the empty page
\* with nothing on the wire
EmptyPageMadeUp ==
  /\ call.op = "list_runs"
  /\ call.args = <<List(<<>>), None, PyInt(0), PyInt(10)>>
  /\ pc = "done"
  /\ wire = <<>>
  /\ result.pagination.size = PyInt(0)

UuidString(id) ==
  IF id = Uuid(1)
  THEN Str("00000000-0000-0000-0000-000000000001")
  ELSE Str("00000000-0000-0000-0000-000000000002")

\* C23: for a non-empty list of n run ids, delete_runs and restore_runs send
\* one request whose filter is a single "or" compound of exactly n
\* conditions, the i-th being {by: "runId", operator: "eq", value: string
\* of the i-th id}, in input order and with duplicates kept, so that the
\* ids the filter names are exactly the listed ones.
RunIdsFilterListsIds ==
  (call.op \in {"delete_runs", "restore_runs"}
     /\ call.args[1] # None
     /\ call.args[1] # List(<<>>)) =>
    LET ids == call.args[1].elems
    IN  /\ Len(wire) = 1
        /\ DOMAIN wire[1].json.items = {"filter"}
        /\ LET f == wire[1].json.items.filter.items
           IN  /\ DOMAIN f = {"operator", "conditions"}
               /\ f.operator = Str("or")
               /\ Len(f.conditions.elems) = Len(ids)
               /\ \A i \in 1..Len(ids) :
                    f.conditions.elems[i] =
                      Dict([by |-> Str("runId"), operator |-> Str("eq"),
                            value |-> UuidString(ids[i])])
               /\ {f.conditions.elems[i].items.value :
                     i \in 1..Len(f.conditions.elems)} =
                    {UuidString(ids[i]) : i \in 1..Len(ids)}

\* restore_runs([u2, u2]) sent two conditions, both naming u2
DuplicateIdsSent ==
  /\ call.op = "restore_runs"
  /\ call.args[1] = List(<<Uuid(2), Uuid(2)>>)
  /\ Len(wire) = 1
  /\ Len(wire[1].json.items.filter.items.conditions.elems) = 2
  /\ wire[1].json.items.filter.items.conditions.elems[2].items.value =
       Str("00000000-0000-0000-0000-000000000002")


====
